---- MODULE Spec2Model ----
(***************************************************************************)
(* Model of the YouTube RAG agent:                                         *)
(*   load_to_chroma.py  - the indexing run: playlist -> per-video          *)
(*                        transcript -> timestamped chunks -> documents    *)
(*   app.py             - the chat session kept in st.session_state        *)
(* Strings are sequences of one-character strings; offsets are 0-based as  *)
(* in Python.                                                              *)
(***************************************************************************)
EXTENDS Integers, Sequences, FiniteSets, TLC

(***************************************************************************)
(* Bounds of the enumerated inputs.                                        *)
(***************************************************************************)
MaxSnippets == 2
MaxChars == 5
MaxChunkSize == 3
MaxVideos == 3
MaxQuestions == 3

Alphabet == {"a", " "}
StartTimes == {0, 5}
Failures == {"NoTranscriptFound", "Exception"}

(***************************************************************************)
(* Python string primitives.                                               *)
(***************************************************************************)
Slice(s, i, j) == SubSeq(s, i + 1, j)

StartsAt(s, sub, i) == i + Len(sub) <= Len(s) /\ Slice(s, i, i + Len(sub)) = sub

\* str.find(sub): the start argument forgotten
FindAnywhere(s, sub, start) ==
    LET hits == {i \in 0..(Len(s) - Len(sub)) : StartsAt(s, sub, i)}
    IN IF hits = {} THEN -1 ELSE CHOOSE i \in hits : \A j \in hits : i <= j

\* str.find(sub, start): lowest index >= start where sub occurs, else -1
Find(s, sub, start) ==
    LET hits == {i \in start..(Len(s) - Len(sub)) : StartsAt(s, sub, i)}
    IN IF hits = {} THEN -1 ELSE CHOOSE i \in hits : \A j \in hits : i <= j

Whitespace == {" ", "\n"}

RECURSIVE LStripCount(_)
LStripCount(s) ==
    IF s # <<>> /\ Head(s) \in Whitespace THEN 1 + LStripCount(Tail(s)) ELSE 0

RECURSIVE RStripCount(_)
RStripCount(s) ==
    IF s # <<>> /\ s[Len(s)] \in Whitespace
    THEN 1 + RStripCount(SubSeq(s, 1, Len(s) - 1)) ELSE 0

\* str.strip()
Strip(s) ==
    LET l == LStripCount(s)
    IN IF l = Len(s) THEN <<>> ELSE Slice(s, l, Len(s) - RStripCount(s))

(***************************************************************************)
(* RecursiveCharacterTextSplitter as configured at load_to_chroma.py:68    *)
(* (keep_separator and strip_whitespace at their defaults).  A piece is a  *)
(* record [s |-> text, off |-> offset of the text in the buffer]; off is   *)
(* bookkeeping of the model only: the splitter returns the texts.          *)
(***************************************************************************)
separators == << <<"\n", "\n">>, <<"\n">>, <<".", " ">>, <<"!", " ">>,
                 <<"?", " ">>, <<" ">>, <<>> >>

\* non-overlapping leftmost occurrences of sep in s, from index i on
RECURSIVE Matches(_, _, _)
Matches(s, sep, i) ==
    IF i + Len(sep) > Len(s) THEN <<>>
    ELSE IF StartsAt(s, sep, i) THEN <<i>> \o Matches(s, sep, i + Len(sep))
    ELSE Matches(s, sep, i + 1)

\* _split_text_with_regex(text, separator, keep_separator=True): each
\* separator is kept at the start of the piece that follows it; empty
\* pieces are removed; the empty separator splits into characters
SplitWithRegex(p, sep) ==
    IF sep = <<>>
    THEN [i \in 1..Len(p.s) |-> [s |-> <<p.s[i]>>, off |-> p.off + i - 1]]
    ELSE LET m == Matches(p.s, sep, 0)
             cut(k) == IF k = 0 THEN 0
                       ELSE IF k > Len(m) THEN Len(p.s) ELSE m[k]
             all == [k \in 1..(Len(m) + 1) |->
                       [s |-> Slice(p.s, cut(k - 1), cut(k)),
                        off |-> p.off + cut(k - 1)]]
         IN SelectSeq(all, LAMBDA q : q.s # <<>>)

RECURSIVE JoinText(_)
JoinText(doc) == IF doc = <<>> THEN <<>> ELSE Head(doc).s \o JoinText(Tail(doc))

\* _join_docs(docs, ""): the joined text stripped; <<>> stands for None
JoinDocs(doc) ==
    LET text == JoinText(doc)
        st == Strip(text)
    IN IF st = <<>> THEN <<>>
       ELSE << [s |-> st, off |-> doc[1].off + LStripCount(text)] >>

\* the popping loop of _merge_splits
RECURSIVE PopDocs(_, _, _, _, _)
PopDocs(cur, total, len, size, overlap) ==
    IF total > overlap \/ (total + len > size /\ total > 0)
    THEN PopDocs(Tail(cur), total - Len(Head(cur).s), len, size, overlap)
    ELSE [cur |-> cur, total |-> total]

\* _merge_splits(splits, ""), from split i on
RECURSIVE MergeSplits(_, _, _, _, _, _, _)
MergeSplits(splits, i, docs, cur, total, size, overlap) ==
    IF i > Len(splits) THEN docs \o JoinDocs(cur)
    ELSE LET d == splits[i]
             len == Len(d.s)
             full == total + len > size
             docs2 == IF full /\ cur # <<>> THEN docs \o JoinDocs(cur) ELSE docs
             pop == IF full /\ cur # <<>>
                    THEN PopDocs(cur, total, len, size, overlap)
                    ELSE [cur |-> cur, total |-> total]
         IN MergeSplits(splits, i + 1, docs2, Append(pop.cur, d),
                        pop.total + len, size, overlap)

\* index of the first separator that occurs in the text (the empty one
\* always does)
RECURSIVE PickSeparator(_, _, _)
PickSeparator(s, seps, i) ==
    IF i >= Len(seps) THEN Len(seps)
    ELSE IF seps[i] = <<>> \/ Matches(s, seps[i], 0) # <<>> THEN i
    ELSE PickSeparator(s, seps, i + 1)

RECURSIVE SplitText(_, _, _, _)
RECURSIVE SplitLoop(_, _, _, _, _, _, _)

\* the loop of _split_text over the splits
SplitLoop(splits, i, good, final, newseps, size, overlap) ==
    LET flush == IF good # <<>>
                 THEN MergeSplits(good, 1, <<>>, <<>>, 0, size, overlap)
                 ELSE <<>>
    IN IF i > Len(splits) THEN final \o flush
       ELSE IF Len(splits[i].s) < size
       THEN SplitLoop(splits, i + 1, Append(good, splits[i]), final,
                      newseps, size, overlap)
       ELSE SplitLoop(splits, i + 1, <<>>,
                      final \o flush \o
                        (IF newseps = <<>> THEN <<splits[i]>>
                         ELSE SplitText(splits[i], newseps, size, overlap)),
                      newseps, size, overlap)

\* _split_text(text, separators)
SplitText(p, seps, size, overlap) ==
    LET k == PickSeparator(p.s, seps, 1)
        sep == seps[k]
        newseps == IF sep = <<>> THEN <<>> ELSE SubSeq(seps, k + 1, Len(seps))
    IN SplitLoop(SplitWithRegex(p, sep), 1, <<>>, <<>>, newseps, size, overlap)

\* text_splitter.split_text(full_transcript), with the offsets
split_text(text, size, overlap) ==
    SplitText([s |-> text, off |-> 0], separators, size, overlap)

(***************************************************************************)
(* Timestamp map builder, load_to_chroma.py:56-65.  The dict is a sequence *)
(* of entries in insertion order.                                          *)
(***************************************************************************)
\* timestamp_map[pos] = ts on an insertion-ordered dict
DictSet(map, pos, ts) ==
    IF \E k \in 1..Len(map) : map[k].pos = pos
    THEN [k \in 1..Len(map) |->
            IF map[k].pos = pos THEN [pos |-> pos, ts |-> ts] ELSE map[k]]
    ELSE Append(map, [pos |-> pos, ts |-> ts])

\* text_to_add = snippet.text + " "
TextToAdd(snippet) == snippet.text \o <<" ">>

\* current_pos advanced by len(snippet.text), the separator forgotten
RECURSIVE BuildTranscriptNoSep(_, _, _, _, _)
BuildTranscriptNoSep(fetched, i, full, map, current_pos) ==
    IF i > Len(fetched) THEN [full |-> full, map |-> map]
    ELSE BuildTranscriptNoSep(fetched, i + 1, full \o TextToAdd(fetched[i]),
                              DictSet(map, current_pos, fetched[i].start),
                              current_pos + Len(fetched[i].text))

RECURSIVE BuildTranscript(_, _, _, _, _)
BuildTranscript(fetched, i, full, map, current_pos) ==
    IF i > Len(fetched) THEN [full |-> full, map |-> map]
    ELSE BuildTranscript(fetched, i + 1, full \o TextToAdd(fetched[i]),
                         DictSet(map, current_pos, fetched[i].start),
                         current_pos + Len(TextToAdd(fetched[i])))

\* the scan with pos < chunk_start_pos
RECURSIVE ClosestTimestampStrict(_, _, _, _)
ClosestTimestampStrict(map, i, pos, closest) ==
    IF i > Len(map) THEN closest
    ELSE IF map[i].pos < pos
    THEN ClosestTimestampStrict(map, i + 1, pos, map[i].ts)
    ELSE closest

\* the scan for the closest timestamp, load_to_chroma.py:89-94
RECURSIVE ClosestTimestamp(_, _, _, _)
ClosestTimestamp(map, i, pos, closest) ==
    IF i > Len(map) THEN closest
    ELSE IF map[i].pos <= pos THEN ClosestTimestamp(map, i + 1, pos, map[i].ts)
    ELSE closest

\* the result of find() used as it is
LocateChunkNoFallback(full, chunk_text, start) == Find(full, chunk_text, start)

\* chunk_start_pos of load_to_chroma.py:83-86
LocateChunk(full, chunk_text, start) ==
    IF Find(full, chunk_text, start) = -1 THEN start
    ELSE Find(full, chunk_text, start)

\* the dict appended at load_to_chroma.py:96-99
MakeChunk(chunk_text, ts) == [text |-> Strip(chunk_text), start_time |-> ts]

\* the exception let out of create_chunks_with_timestamps
ExceptReraises == FALSE

\* load_to_chroma.py:107-112: both handlers return [] to the driver instead
\* of letting the exception out
ExceptReturns == TRUE

\* TextSplitter.__init__ raises ValueError on a larger overlap than size
SplitterRaises(size, overlap) == overlap > size

\* Document(...) of load_to_chroma.py:150-156
MakeDocs(cs, url) ==
    [k \in 1..Len(cs) |-> [page_content |-> cs[k].text, video_url |-> url,
                           start_time |-> cs[k].start_time]]

MAX_VIDEOS_TO_PROCESS == 20

(***************************************************************************)
(* Enumerated inputs.                                                      *)
(***************************************************************************)
Texts(l) == UNION {[1..k -> Alphabet] : k \in 0..l}

\* captions starting at tmin or later, with texts of at most l characters
Snippets(l, tmin) == [text : Texts(l), start : {t \in StartTimes : t >= tmin}]

\* transcripts of at most n snippets and c characters of text in all; the
\* snippets come ordered by start time
RECURSIVE TranscriptsFrom(_, _, _)
TranscriptsFrom(n, c, tmin) ==
    IF n = 0 THEN {<<>>}
    ELSE {<<>>} \cup
         UNION {{<<sn>> \o t : t \in TranscriptsFrom(n - 1, c - Len(sn.text), sn.start)} :
                  sn \in Snippets(c, tmin)}

Transcripts(n, c) == TranscriptsFrom(n, c, 0)

\* four captions at 0, 5, 12 and 30 seconds
Scenario ==
    << [text |-> <<"a">>, start |-> 0], [text |-> <<"a", ".">>, start |-> 5],
       [text |-> <<"a", " ", "a">>, start |-> 12],
       [text |-> <<"a">>, start |-> 30] >>

\* the result of a transcript fetch: the snippets, or the exception raised
Fetched(ts) == [err : {"none"}, snippets : ts] \cup [err : Failures, snippets : {<<>>}]

\* what YouTube holds, per video of the playlist: one video with any
\* transcript, or a playlist of short ones
Worlds ==
    [1..1 -> Fetched(Transcripts(MaxSnippets, MaxChars) \cup {Scenario})]
    \cup UNION {[1..n -> Fetched(Transcripts(1, 1))] : n \in 0..MaxVideos}

VARIABLES
    pc,               \* position of the indexing run
    chunk_size, chunk_overlap,
    youtube,          \* video number -> transcript or failure
    video_urls, vi,   \* the list of load_to_chroma.py:138 and the loop index
    all_docs, db,
    full_transcript, timestamp_map, text_chunks, ci,
    search_start, chunk_start_pos, chunks,
    origin,           \* per text chunk, the offset the splitter took it from
    offsets,          \* chunk_start_pos of each chunk located so far
    found,            \* per located chunk, whether find() succeeded
    status,           \* per video: "pending", "ok" or "failed"
    returned,         \* per video, what create_chunks_with_timestamps returned
    messages, api_key_configured, qa_chain,   \* st.session_state
    shown,            \* what the last handler displayed
    asked,            \* questions asked so far
    raised            \* the exception of the last question, "none" without one

indexVars == <<pc, chunk_size, chunk_overlap, youtube, video_urls, vi,
               all_docs, db, full_transcript, timestamp_map, text_chunks, ci,
               search_start, chunk_start_pos, chunks, origin, offsets, found,
               status, returned>>
chatVars == <<messages, api_key_configured, qa_chain, shown, asked, raised>>
vars == <<indexVars, chatVars>>

\* no video is being chunked
ClearLocals ==
    /\ full_transcript' = <<>>
    /\ timestamp_map' = <<>>
    /\ text_chunks' = <<>>
    /\ origin' = <<>>
    /\ ci' = 1
    /\ search_start' = 0
    /\ chunk_start_pos' = 0
    /\ chunks' = <<>>
    /\ offsets' = <<>>
    /\ found' = <<>>

\* st.session_state after app.py:14-19
ChatInit ==
    /\ messages = <<>>
    /\ api_key_configured = FALSE
    /\ qa_chain = "None"
    /\ shown = [kind |-> "info", text |-> <<>>]
    /\ asked = 0
    /\ raised = "none"

IndexInit ==
    /\ pc = "start"
    /\ chunk_size \in 1..MaxChunkSize
    /\ chunk_overlap \in 0..MaxChunkSize
    /\ youtube \in Worlds
    /\ video_urls = <<>>
    /\ vi = 1
    /\ all_docs = <<>>
    /\ db = <<>>
    /\ full_transcript = <<>>
    /\ timestamp_map = <<>>
    /\ text_chunks = <<>>
    /\ origin = <<>>
    /\ ci = 1
    /\ search_start = 0
    /\ chunk_start_pos = 0
    /\ chunks = <<>>
    /\ offsets = <<>>
    /\ found = <<>>
    /\ status = [v \in DOMAIN youtube |-> "pending"]
    /\ returned = [v \in DOMAIN youtube |-> <<>>]

Init == IndexInit /\ ChatInit

\* load_to_chroma.py:138: get_video_urls, which returns [] on any error
GetVideoUrls ==
    /\ pc = "start"
    /\ \E ok \in BOOLEAN :
         video_urls' = IF ok
                       THEN SubSeq([v \in DOMAIN youtube |-> v], 1,
                                   IF Len(youtube) < MAX_VIDEOS_TO_PROCESS
                                   THEN Len(youtube) ELSE MAX_VIDEOS_TO_PROCESS)
                       ELSE <<>>
    /\ pc' = "video"
    /\ UNCHANGED <<chunk_size, chunk_overlap, youtube, vi, all_docs, db,
                   full_transcript, timestamp_map, text_chunks, ci,
                   search_start, chunk_start_pos, chunks, origin, offsets,
                   found, status, returned>>
    /\ UNCHANGED chatVars

\* load_to_chroma.py:143-146 and 46-79: the next video's transcript is
\* fetched, concatenated and split; every exception makes the function
\* return [] (lines 107-112), and the driver goes to the next video
StartVideo ==
    /\ pc = "video"
    /\ vi <= Len(video_urls)
    /\ LET url == video_urls[vi]
           fetched == youtube[url]
       IN IF fetched.err # "none" \/ SplitterRaises(chunk_size, chunk_overlap)
          THEN /\ status' = [status EXCEPT ![url] = "failed"]
               /\ returned' = [returned EXCEPT ![url] = <<>>]
               /\ vi' = IF ExceptReturns THEN vi + 1 ELSE vi
               /\ pc' = IF ExceptReturns THEN "video" ELSE "crashed"
               /\ ClearLocals
          ELSE \E built \in {BuildTranscript(fetched.snippets, 1, <<>>, <<>>, 0)} :
               \E pieces \in {split_text(built.full, chunk_size, chunk_overlap)} :
               /\ full_transcript' = built.full
               /\ timestamp_map' = built.map
               /\ text_chunks' = [k \in 1..Len(pieces) |-> pieces[k].s]
               /\ origin' = [k \in 1..Len(pieces) |-> pieces[k].off]
               /\ ci' = 1
               /\ search_start' = 0
               /\ chunk_start_pos' = 0
               /\ chunks' = <<>>
               /\ offsets' = <<>>
               /\ found' = <<>>
               /\ pc' = "locate"
               /\ UNCHANGED <<vi, status, returned>>
    /\ UNCHANGED <<chunk_size, chunk_overlap, youtube, video_urls, all_docs, db>>
    /\ UNCHANGED chatVars

\* load_to_chroma.py:81-102: one iteration of the chunk-locating loop
LocateNext ==
    /\ pc = "locate"
    /\ ci <= Len(text_chunks)
    /\ LET chunk_text == text_chunks[ci]
       IN \E p \in {LocateChunk(full_transcript, chunk_text, search_start)} :
          /\ chunk_start_pos' = p
          /\ chunks' = Append(chunks,
                 MakeChunk(chunk_text, ClosestTimestamp(timestamp_map, 1, p, 0)))
          /\ search_start' = p + Len(chunk_text)
          /\ offsets' = Append(offsets, p)
          /\ found' = Append(found,
                 Find(full_transcript, chunk_text, search_start) # -1)
    /\ ci' = ci + 1
    /\ UNCHANGED <<pc, chunk_size, chunk_overlap, youtube, video_urls, vi,
                   all_docs, db, full_transcript, timestamp_map, text_chunks,
                   origin, status, returned>>
    /\ UNCHANGED chatVars

\* load_to_chroma.py:104-105 and 149-157: the chunks are returned and the
\* driver appends one Document per chunk
ReturnChunks ==
    /\ pc = "locate"
    /\ ci > Len(text_chunks)
    /\ all_docs' = all_docs \o MakeDocs(chunks, video_urls[vi])
    /\ status' = [status EXCEPT ![video_urls[vi]] = "ok"]
    /\ returned' = [returned EXCEPT ![video_urls[vi]] = chunks]
    /\ vi' = vi + 1
    /\ pc' = "video"
    /\ UNCHANGED <<chunk_size, chunk_overlap, youtube, video_urls, db,
                   full_transcript, timestamp_map, text_chunks, ci,
                   search_start, chunk_start_pos, chunks, origin, offsets,
                   found>>
    /\ UNCHANGED chatVars

\* load_to_chroma.py:160-164: the documents are embedded and persisted; an
\* exception of create_and_load_embeddings is not caught
LoadEmbeddings ==
    /\ pc = "video"
    /\ vi > Len(video_urls)
    /\ IF all_docs = <<>>
       THEN pc' = "done" /\ db' = db
       ELSE \E ok \in BOOLEAN :
              IF ok THEN pc' = "done" /\ db' = all_docs
              ELSE pc' = "crashed" /\ db' = db
    /\ UNCHANGED <<chunk_size, chunk_overlap, youtube, video_urls, vi,
                   all_docs, full_transcript, timestamp_map, text_chunks, ci,
                   search_start, chunk_start_pos, chunks, origin, offsets,
                   found, status, returned>>
    /\ UNCHANGED chatVars

(***************************************************************************)
(* app.py: the chat session.  Streamlit runs main() once per interaction;  *)
(* each action is one such run with the widget that triggered it.          *)
(***************************************************************************)
Prompts == {"q1", "q2"}
Errors == {"timeout"}

\* documents the retriever may return; start_time in tenths of a second
RetrievedDocs ==
    { <<>>,
      << [page_content |-> "c1", video_url |-> "v1", start_time |-> 125,
          has_metadata |-> TRUE] >>,
      << [page_content |-> "c1", video_url |-> "v1", start_time |-> 125,
          has_metadata |-> TRUE],
         [page_content |-> "c2", video_url |-> "v2", start_time |-> 0,
          has_metadata |-> FALSE] >> }

\* what qa_chain({"query": prompt}) does: raises, or returns a response
Responses ==
    [raises : Errors, result : {""}, source_documents : {<<>>}]
    \cup [raises : {"none"}, result : {"answer"}, source_documents : RetrievedDocs]

\* app.py:43-45, int() truncating the seconds
format_timestamp_link(video_url, start_time) ==
    <<video_url, "&t=", start_time \div 10, "s">>

\* app.py:143-152
Sources(docs) ==
    [k \in 1..Len(docs) |->
        [link |-> format_timestamp_link(docs[k].video_url, docs[k].start_time),
         content |-> docs[k].page_content]]

\* the exception of app.py:136-152 for a response, "none" without one
Raised(chain, resp) ==
    IF chain = "None" THEN "TypeError"
    ELSE IF resp.raises # "none" THEN resp.raises
    ELSE IF \E k \in 1..Len(resp.source_documents) :
               ~resp.source_documents[k].has_metadata THEN "KeyError"
    ELSE "none"

UserMessage(prompt) ==
    [role |-> "user", content |-> <<prompt>>, has_sources |-> FALSE,
     sources |-> <<>>]

\* app.py:164-168
AnswerMessage(resp) ==
    [role |-> "assistant", content |-> <<resp.result>>, has_sources |-> TRUE,
     sources |-> Sources(resp.source_documents)]

\* app.py:171
ErrorText(e) == <<"Sorry, I encountered an error: ", e>>

\* the error entry without its text
ErrorMessageEmpty(e) ==
    [role |-> "assistant", content |-> <<>>, has_sources |-> FALSE,
     sources |-> <<>>]

\* app.py:173-176
ErrorMessage(e) ==
    [role |-> "assistant", content |-> ErrorText(e), has_sources |-> FALSE,
     sources |-> <<>>]

\* app.py:72-84: the "Configure API Key" button
ConfigureKey ==
    /\ ~api_key_configured
    /\ \E key \in {"", "key"}, loaded \in BOOLEAN :
         IF key # "" /\ loaded
         THEN /\ qa_chain' = "chain"
              /\ api_key_configured' = TRUE
              /\ shown' = [kind |-> "success", text |-> <<>>]
         ELSE /\ shown' = [kind |-> "error", text |-> <<>>]
              /\ UNCHANGED <<qa_chain, api_key_configured>>
    /\ UNCHANGED <<messages, asked, raised>>
    /\ UNCHANGED indexVars

\* app.py:89-93: the "Reset API Key" button
ResetKey ==
    /\ api_key_configured
    /\ api_key_configured' = FALSE
    /\ qa_chain' = "None"
    /\ messages' = <<>>
    /\ shown' = [kind |-> "info", text |-> <<>>]
    /\ UNCHANGED <<asked, raised>>
    /\ UNCHANGED indexVars

\* app.py:99-102: the "Clear Chat History" button
ClearHistory ==
    /\ messages # <<>>
    /\ messages' = <<>>
    /\ shown' = [kind |-> "info", text |-> <<>>]
    /\ UNCHANGED <<api_key_configured, qa_chain, asked, raised>>
    /\ UNCHANGED indexVars

\* app.py:105-107 and 124-176: a question typed into the chat input
Ask ==
    /\ api_key_configured
    /\ asked < MaxQuestions
    /\ \E prompt \in Prompts, resp \in Responses :
         LET e == Raised(qa_chain, resp)
         IN /\ raised' = e
            /\ IF e = "none"
               THEN /\ messages' = messages \o <<UserMessage(prompt),
                                                  AnswerMessage(resp)>>
                    /\ shown' = [kind |-> "answer", text |-> <<resp.result>>]
               ELSE /\ messages' = messages \o <<UserMessage(prompt),
                                                  ErrorMessage(e)>>
                    /\ shown' = [kind |-> "error", text |-> ErrorText(e)]
    /\ asked' = asked + 1
    /\ UNCHANGED <<api_key_configured, qa_chain>>
    /\ UNCHANGED indexVars

\* the session starts from app.py:14-19; the indexing run has ended before
InitChat ==
    /\ ChatInit
    /\ pc = "done"
    /\ chunk_size = 1
    /\ chunk_overlap = 0
    /\ youtube = <<>>
    /\ video_urls = <<>>
    /\ vi = 1
    /\ all_docs = <<>>
    /\ db = <<>>
    /\ full_transcript = <<>>
    /\ timestamp_map = <<>>
    /\ text_chunks = <<>>
    /\ origin = <<>>
    /\ ci = 1
    /\ search_start = 0
    /\ chunk_start_pos = 0
    /\ chunks = <<>>
    /\ offsets = <<>>
    /\ found = <<>>
    /\ status = <<>>
    /\ returned = <<>>

ChatNext == ConfigureKey \/ ResetKey \/ ClearHistory \/ Ask

SpecChat == InitChat /\ [][ChatNext]_vars

Next == GetVideoUrls \/ StartVideo \/ LocateNext \/ ReturnChunks \/ LoadEmbeddings

Spec == Init /\ [][Next]_vars

(***************************************************************************)
(* Properties of the indexing run (Spec).                                  *)
(***************************************************************************)
ValidConfig == chunk_overlap < chunk_size

Located == 1..Len(offsets)

\* C1: with 0 <= chunk_overlap < chunk_size, every chunk carries the start
\* time of a caption snippet that begins at or before the offset at which
\* the chunk's text starts in the buffer; no chunk is stamped with a snippet
\* that begins after the chunk's own start.
C1_StampNotAfterChunkStart ==
    ValidConfig =>
      \A k \in Located :
        \E i \in 1..Len(timestamp_map) :
          /\ timestamp_map[i].ts = chunks[k].start_time
          /\ timestamp_map[i].pos <= origin[k]

\* C2: from one chunk to the next search_start never decreases, the chunk is
\* never placed before the current search_start, and its resolved offset is
\* at least the previous chunk's resolved offset.
C2_CursorMonotonic ==
    [][(pc = "locate" /\ ci' = ci + 1) =>
         /\ search_start' >= search_start
         /\ chunk_start_pos' >= search_start
         /\ (offsets # <<>> => chunk_start_pos' >= offsets[Len(offsets)])
         /\ offsets'[ci] = chunk_start_pos']_vars

\* two chunks located, the second one's text also occurring before the
\* cursor
C2_Witness ==
    \E k \in Located :
       /\ k >= 2
       /\ offsets[k] >= offsets[k - 1]
       /\ \E j \in 0..(offsets[k - 1] + Len(text_chunks[k - 1]) - 1) :
            StartsAt(full_transcript, text_chunks[k], j)

C3_GreatestKey(map, off) ==
    LET cands == {i \in 1..Len(map) : map[i].pos <= off}
    IN IF cands = {} THEN 0
       ELSE map[CHOOSE i \in cands : \A j \in cands : map[j].pos <= map[i].pos].ts

C3_Between12And30(k) ==
    /\ [i \in 1..Len(timestamp_map) |-> timestamp_map[i].ts] = <<0, 5, 12, 30>>
    /\ timestamp_map[3].pos < offsets[k]
    /\ offsets[k] < timestamp_map[4].pos

\* C3: a chunk's start_time is the value of the map entry with the greatest
\* key <= the resolved offset, 0 when there is none; for snippets at 0, 5, 12
\* and 30 and an offset between the snippets for 12 and 30 it is 12.
C3_NearestPreceding ==
    \A k \in Located :
       /\ chunks[k].start_time = C3_GreatestKey(timestamp_map, offsets[k])
       /\ C3_Between12And30(k) => chunks[k].start_time = 12

C3_Witness == \E k \in Located : C3_Between12And30(k)

RECURSIVE C4_Offset(_, _)
C4_Offset(sn, i) ==
    IF i = 1 THEN 0 ELSE C4_Offset(sn, i - 1) + Len(sn[i - 1].text) + 1

\* C4: the timestamp map has strictly increasing keys in insertion order and
\* one entry per snippet, each key being the offset in the buffer at which
\* that snippet's text begins, mapped to that snippet's start time.
C4_MapMatchesBuffer ==
    pc = "locate" =>
      LET sn == youtube[video_urls[vi]].snippets
      IN /\ Len(timestamp_map) = Len(sn)
         /\ \A i \in 1..(Len(timestamp_map) - 1) :
              timestamp_map[i].pos < timestamp_map[i + 1].pos
         /\ \A i \in 1..Len(timestamp_map) :
              /\ i <= Len(sn)
              /\ timestamp_map[i].ts = sn[i].start
              /\ timestamp_map[i].pos = C4_Offset(sn, i)
              /\ StartsAt(full_transcript, sn[i].text \o <<" ">>,
                          timestamp_map[i].pos)

C4_Witness ==
    /\ pc = "locate"
    /\ Len(timestamp_map) = 2
    /\ timestamp_map[2].pos > 1
    /\ timestamp_map[1].ts < timestamp_map[2].ts

\* C5: when the chunk's text does not occur at or after search_start, the
\* chunk gets search_start as its resolved offset, is still emitted at its
\* position of the output, and the loop goes on with the next chunk.
C5_FallbackKeepsChunk ==
    [][(pc = "locate" /\ ci' = ci + 1
        /\ Find(full_transcript, text_chunks[ci], search_start) = -1) =>
         /\ chunk_start_pos' = search_start
         /\ Len(chunks) = ci - 1
         /\ chunks' = Append(chunks, chunks'[ci])
         /\ chunks'[ci].text = Strip(text_chunks[ci])
         /\ pc' = "locate"]_vars

\* a chunk placed by the fallback, and a later chunk placed after it
C5_Witness ==
    \E k \in Located : ~found[k] /\ k < Len(chunks) /\ offsets[k] >= 0

DocsOf(v) == SelectSeq(all_docs, LAMBDA d : d.video_url = v)

\* C6: a video whose transcript fails contributes no Record, lets no
\* exception out of the batch and does not keep later videos from being
\* processed; the Records are the chunks of the videos that succeeded, each
\* under its own video_url.
C6_FailureIsolation ==
    /\ \A v \in DOMAIN youtube :
         /\ status[v] # "ok" => DocsOf(v) = <<>>
         /\ (youtube[v].err # "none" /\ status[v] # "pending") => status[v] = "failed"
         /\ status[v] = "ok" =>
              /\ Len(DocsOf(v)) = Len(returned[v])
              /\ \A k \in 1..Len(returned[v]) :
                   /\ DocsOf(v)[k].page_content = returned[v][k].text
                   /\ DocsOf(v)[k].start_time = returned[v][k].start_time
    /\ pc = "crashed" => (vi > Len(video_urls) /\ all_docs # <<>>)
    /\ pc \in {"done", "crashed"} =>
         \A v \in 1..Len(video_urls) : status[v] # "pending"

\* videos A and C succeed around a failing B
C6_Witness ==
    /\ pc = "done"
    /\ Len(video_urls) = 3
    /\ status = <<"ok", "failed", "ok">>
    /\ DocsOf(1) # <<>>
    /\ DocsOf(3) # <<>>
    /\ Len(all_docs) = Len(DocsOf(1)) + Len(DocsOf(3))

\* C8: with chunk_overlap >= chunk_size the run fails at startup, before any
\* video is processed; it neither processes videos nor completes normally.
C8_FatalAtStartup ==
    (chunk_overlap >= chunk_size /\ video_urls # <<>>) =>
       (vi = 1 /\ pc \notin {"locate", "done"})

\* C9: every chunk returned by create_chunks_with_timestamps, and every
\* Record built from it, has a non-empty text.
C9_NoEmptyChunk ==
    /\ \A k \in 1..Len(chunks) : chunks[k].text # <<>>
    /\ \A k \in 1..Len(all_docs) : all_docs[k].page_content # <<>>

\* C10: with 0 <= chunk_overlap < chunk_size every resolved offset is a
\* position of the buffer: 0 <= chunk_start_pos <= len(full_transcript).
C10_OffsetInBuffer ==
    ValidConfig =>
      /\ \A k \in Located : 0 <= offsets[k] /\ offsets[k] <= Len(full_transcript)
      /\ 0 <= chunk_start_pos /\ chunk_start_pos <= Len(full_transcript)

(***************************************************************************)
(* Properties of the chat session (SpecChat).                              *)
(***************************************************************************)
\* C7: when the call for a question fails, an error is shown, the history
\* gains the question followed by one assistant entry carrying the error,
\* the earlier entries stay, and api_key_configured and qa_chain are
\* unchanged, so the next question is accepted.
C7_FailedQuestionKeepsSession ==
    [][(asked' = asked + 1 /\ raised' # "none") =>
         LET n == Len(messages)
         IN /\ shown'.kind = "error"
            /\ shown'.text # <<>>
            /\ Len(messages') = n + 2
            /\ SubSeq(messages', 1, n) = messages
            /\ messages'[n + 1].role = "user"
            /\ messages'[n + 1].content[1] \in Prompts
            /\ messages'[n + 2].role = "assistant"
            /\ messages'[n + 2].content = shown'.text
            /\ api_key_configured' = api_key_configured
            /\ qa_chain' = qa_chain
            /\ api_key_configured']_vars

\* a failed question in the history, followed by a later question
C7_Witness ==
    \E k \in 1..Len(messages) :
       /\ messages[k].role = "assistant"
       /\ ~messages[k].has_sources
       /\ k + 2 <= Len(messages)
       /\ messages[k + 1].role = "user"
       /\ api_key_configured
====
